---- MODULE Spec2Model ----
(***************************************************************************)
(* Model of the option registry and parser of tools.h (namespace options). *)
(*                                                                         *)
(* A C string is a tuple of one-character strings; argv is a tuple of such *)
(* tokens, and Arg(av, k) is the C expression argv[k] (0-based).           *)
(* A bound variable is named by the caller's variable it refers to; every  *)
(* make call is handed a variable of its own, as in the usage example of   *)
(* the header (tools.h lines 88-110).                                      *)
(***************************************************************************)
EXTENDS Integers, Sequences, FiniteSets, TLC

(* ---------------------------- bounds ----------------------------------- *)
\* longest argv (argc) of the enumerated command lines
MaxArgc == 3
\* number of make calls in one run
MaxMakes == 2
\* number of parse calls in one run
MaxParses == 2

(* ---------------------------- constants -------------------------------- *)
\* std::numeric_limits<int>::max() / min() of the generic option's T = int
INT_MAX == 2147483647
INT_MIN == (0 - INT_MAX) - 1

(* ---------------------------- strings ---------------------------------- *)
prog == <<"p", "r", "o", "g">>
positional == <<"p", "o", "s", "i", "t", "i", "o", "n", "a", "l">>
abc == <<"a", "b", "c">>

\* the tokens the enumerated command lines are built from
Tokens ==
    { <<>>, <<"-", "a">>, <<"-", "n">>, <<"1">>, abc }

\* the command lines quoted in the documentation of the behaviour
ExampleArgvs ==
    { <<prog, <<"-", "a">>, <<"1">>, positional, <<"-", "b">>, <<"2">> >>,
      <<prog, <<"-", "n">>, <<"1">>, <<"-", "n">>, <<"2">> >>,
      <<prog, <<"-", "n">>, <<"1">>, <<"-", "n">> >>,
      <<prog, <<"-", "a">>, <<"4", "2">> >>,
      <<prog, <<"-", "a">>, <<"4", "2">>, <<"-", "a">>, abc >>,
      <<prog, <<"-", "z">>, <<"1">> >>,
      <<prog, <<"-">>, <<"1">> >> }

\* argv[0] is the program name; argc = Len(argv) >= 1
Argvs ==
    { <<prog>> \o t : t \in UNION { [1..n -> Tokens] : n \in 0..(MaxArgc - 1) } }
        \cup ExampleArgvs

\* names a caller registers
Names == { <<"a">>, <<"n">> }

\* the character code of a character (ASCII)
Ord(c) ==
    CASE c = " " -> 32 [] c = "+" -> 43 [] c = "-" -> 45
      [] c = "0" -> 48 [] c = "1" -> 49 [] c = "2" -> 50 [] c = "3" -> 51
      [] c = "4" -> 52 [] c = "5" -> 53 [] c = "6" -> 54 [] c = "7" -> 55
      [] c = "8" -> 56 [] c = "9" -> 57
      [] c = "a" -> 97 [] c = "b" -> 98 [] c = "c" -> 99 [] c = "g" -> 103
      [] c = "i" -> 105 [] c = "l" -> 108 [] c = "n" -> 110 [] c = "o" -> 111
      [] c = "p" -> 112 [] c = "r" -> 114 [] c = "s" -> 115 [] c = "t" -> 116
      [] c = "z" -> 122

IsDigit(c) == Ord(c) >= 48 /\ Ord(c) <= 57

\* std::string operator< : the order of the keys of std::map<std::string, ...>
RECURSIVE StrLess(_, _)
StrLess(s, t) ==
    IF t = <<>> THEN FALSE
    ELSE IF s = <<>> THEN TRUE
    ELSE IF Ord(s[1]) # Ord(t[1]) THEN Ord(s[1]) < Ord(t[1])
    ELSE StrLess(Tail(s), Tail(t))

(* ---------------------------- the caller's variables ------------------- *)
VarNames == { "yesno", "test", "param", "log" }

\* the template argument T that make<T> deduces for each variable
VarKind ==
    [ yesno |-> "bool", test |-> "string", param |-> "int", log |-> "ofstream" ]

\* the values the caller initialises the variables with
VarInit ==
    [ yesno |-> FALSE, test |-> <<>>, param |-> 100,
      log |-> [open |-> FALSE, path |-> <<>>, fail |-> FALSE] ]

(* ---------------------------- stream conversions --------------------- *)
IsSpace(c) == c = " "

\* the sentry of a formatted input function skips leading white space
RECURSIVE SkipWs(_)
SkipWs(s) == IF s # <<>> /\ IsSpace(s[1]) THEN SkipWs(Tail(s)) ELSE s

\* the longest prefix of s made of decimal digits
RECURSIVE Digits(_)
Digits(s) == IF s # <<>> /\ IsDigit(s[1]) THEN <<s[1]>> \o Digits(Tail(s)) ELSE <<>>

\* the number a digit string denotes (0 for the empty string)
RECURSIVE DigitsValue(_)
DigitsValue(d) ==
    IF d = <<>> THEN 0
    ELSE 10 * DigitsValue(SubSeq(d, 1, Len(d) - 1)) + (Ord(d[Len(d)]) - 48)

\* std::istringstream in(opt); in >> val;  for T = int.
\* The sentry fails on an exhausted stream and val is not touched; otherwise
\* num_get reads an optional sign and the digits that follow: with no digit the
\* conversion fails and 0 is stored, an out-of-range number stores the nearest
\* limit, and characters after the digits are left in the stream.
ExtractInt(opt, old) ==
    LET s    == SkipWs(opt)
        neg  == s # <<>> /\ s[1] = "-"
        sgn  == s # <<>> /\ (s[1] = "-" \/ s[1] = "+")
        d    == Digits(IF sgn THEN Tail(s) ELSE s)
        n    == IF neg THEN 0 - DigitsValue(d) ELSE DigitsValue(d)
    IN  IF s = <<>> THEN old
        ELSE IF d = <<>> THEN 0
        ELSE IF n > INT_MAX THEN INT_MAX
        ELSE IF n < INT_MIN THEN INT_MIN
        ELSE n

\* out << val  for a non-negative int: its decimal digits
RECURSIVE NatStr(_)
NatStr(n) ==
    LET c == CHOOSE ch \in {"0", "1", "2", "3", "4", "5", "6", "7", "8", "9"} :
                 Ord(ch) - 48 = n % 10
    IN  IF n < 10 THEN <<c>> ELSE NatStr(n \div 10) \o <<c>>

\* out << val  for T = int
IntStr(n) == IF n < 0 THEN <<"-">> \o NatStr(0 - n) ELSE NatStr(n)

\* val.open(opt.c_str()) : basic_filebuf::open fails on a stream that is
\* already open, and no file has the empty name; a failed open sets failbit
\* and leaves the stream as it was.
OfstreamOpen(f, opt) ==
    IF f.open \/ opt = <<>>
    THEN [f EXCEPT !.fail = TRUE]
    ELSE [open |-> TRUE, path |-> opt, fail |-> FALSE]

(* ---------------------------- option variants -------------------------- *)
\* a handle: the typed_option<T> object make allocates, holding the reference val
Handle(v) == [kind |-> VarKind[v], val |-> v]

\* mutant: the boolean option asks for a value token like the other variants
ParseFlagOnlyBoolNeedsValue(h, vs) ==
    IF h.kind = "bool"
    THEN [needs |-> TRUE, vars |-> [vs EXCEPT ![h.val] = TRUE]]
    ELSE [needs |-> TRUE, vars |-> vs]

\* mutant: the boolean option toggles its variable (val = !val)
ParseFlagOnlyToggles(h, vs) ==
    IF h.kind = "bool"
    THEN [needs |-> FALSE, vars |-> [vs EXCEPT ![h.val] = ~vs[h.val]]]
    ELSE [needs |-> TRUE, vars |-> vs]

\* bool option::parse() : TRUE when a value token is to be consumed.
\* Returns the result and the variables after the call.
ParseFlagOnly(h, vs) ==
    IF h.kind = "bool"
    THEN [needs |-> FALSE, vars |-> [vs EXCEPT ![h.val] = TRUE]]
    ELSE [needs |-> TRUE, vars |-> vs]

\* mutant: the string option appends the token (val += opt)
ParseWithValueAppends(h, opt, vs) ==
    CASE h.kind = "bool"     -> vs
      [] h.kind = "string"   -> [vs EXCEPT ![h.val] = vs[h.val] \o opt]
      [] h.kind = "int"      -> [vs EXCEPT ![h.val] = ExtractInt(opt, vs[h.val])]
      [] h.kind = "ofstream" -> [vs EXCEPT ![h.val] = OfstreamOpen(vs[h.val], opt)]

\* void option::parse(const std::string & opt) : the variables after the call
ParseWithValue(h, opt, vs) ==
    CASE h.kind = "bool"     -> vs
      [] h.kind = "string"   -> [vs EXCEPT ![h.val] = opt]
      [] h.kind = "int"      -> [vs EXCEPT ![h.val] = ExtractInt(opt, vs[h.val])]
      [] h.kind = "ofstream" -> [vs EXCEPT ![h.val] = OfstreamOpen(vs[h.val], opt)]

\* std::string option::type() const
TypeName(h) ==
    CASE h.kind = "bool"     -> "bool"
      [] h.kind = "string"   -> "typeid(std::string)"
      [] h.kind = "int"      -> "typeid(int)"
      [] h.kind = "ofstream" -> "typeid(std::ofstream)"

\* mutant: the value column shows the value the variable was initialised with
CurrentValueOfDefault(h, vs) ==
    CASE h.kind = "bool"     -> IF VarInit[h.val] THEN <<"1">> ELSE <<"0">>
      [] h.kind = "string"   -> VarInit[h.val]
      [] h.kind = "int"      -> IntStr(VarInit[h.val])
      [] h.kind = "ofstream" -> <<"f", "i", "l", "e">>

\* std::string option::value() const
CurrentValue(h, vs) ==
    CASE h.kind = "bool"     -> IF vs[h.val] THEN <<"1">> ELSE <<"0">>
      [] h.kind = "string"   -> vs[h.val]
      [] h.kind = "int"      -> IntStr(vs[h.val])
      [] h.kind = "ofstream" -> <<"f", "i", "l", "e">>

(* ---------------------------- parser ----------------------------------- *)
\* argv[k]
Arg(av, k) == av[k + 1]

\* mutant: every non-empty token is taken for a flag
IsFlagAnyToken(tok) == tok # <<>>

\* argv[i][0] == '-'  (the first character of an empty string is '\0')
IsFlag(tok) == tok # <<>> /\ tok[1] = "-"

\* mutant: an unknown flag swallows the token after it
BodyUnknownTakesValue(i, av, fl, vs) ==
    LET opt == Tail(Arg(av, i))
    IN  IF opt \in DOMAIN fl
        THEN LET r == ParseFlagOnly(fl[opt], vs)
             IN  IF r.needs /\ i < Len(av) - 1
                 THEN [i |-> i + 2,
                       vars |-> ParseWithValue(fl[opt], Arg(av, i + 1), r.vars)]
                 ELSE [i |-> i + 1, vars |-> r.vars]
        ELSE [i |-> IF i < Len(av) - 1 THEN i + 2 ELSE i + 1, vars |-> vs]

\* mutant: a flag that needs a value and is the last token is handed ""
BodyEmptyValueAtEnd(i, av, fl, vs) ==
    LET opt == Tail(Arg(av, i))
    IN  IF opt \in DOMAIN fl
        THEN LET r == ParseFlagOnly(fl[opt], vs)
             IN  IF r.needs /\ i < Len(av) - 1
                 THEN [i |-> i + 2,
                       vars |-> ParseWithValue(fl[opt], Arg(av, i + 1), r.vars)]
                 ELSE IF r.needs
                 THEN [i |-> i + 1, vars |-> ParseWithValue(fl[opt], <<>>, r.vars)]
                 ELSE [i |-> i + 1, vars |-> r.vars]
        ELSE [i |-> i + 1, vars |-> vs]

\* mutant: the value is read from argv[i + 1] without advancing the cursor
BodyValueNotSkipped(i, av, fl, vs) ==
    LET opt == Tail(Arg(av, i))
    IN  IF opt \in DOMAIN fl
        THEN LET r == ParseFlagOnly(fl[opt], vs)
             IN  IF r.needs /\ i < Len(av) - 1
                 THEN [i |-> i + 1,
                       vars |-> ParseWithValue(fl[opt], Arg(av, i + 1), r.vars)]
                 ELSE [i |-> i + 1, vars |-> r.vars]
        ELSE [i |-> i + 1, vars |-> vs]

\* mutant: the cursor is not advanced past an unknown flag
BodyUnknownStuck(i, av, fl, vs) ==
    LET opt == Tail(Arg(av, i))
    IN  IF opt \in DOMAIN fl
        THEN LET r == ParseFlagOnly(fl[opt], vs)
             IN  IF r.needs /\ i < Len(av) - 1
                 THEN [i |-> i + 2,
                       vars |-> ParseWithValue(fl[opt], Arg(av, i + 1), r.vars)]
                 ELSE [i |-> i + 1, vars |-> r.vars]
        ELSE [i |-> i, vars |-> vs]

\* mutant: a token that begins with '-' is not taken as a value
BodyDashIsNoValue(i, av, fl, vs) ==
    LET opt == Tail(Arg(av, i))
    IN  IF opt \in DOMAIN fl
        THEN LET r == ParseFlagOnly(fl[opt], vs)
             IN  IF r.needs /\ i < Len(av) - 1 /\ ~IsFlag(Arg(av, i + 1))
                 THEN [i |-> i + 2,
                       vars |-> ParseWithValue(fl[opt], Arg(av, i + 1), r.vars)]
                 ELSE [i |-> i + 1, vars |-> r.vars]
        ELSE [i |-> i + 1, vars |-> vs]

\* mutant: the value's index is tested against argc, not argc - 1; the read
\* past the end yields no characters
BodyReadsPastEnd(i, av, fl, vs) ==
    LET opt == Tail(Arg(av, i))
    IN  IF opt \in DOMAIN fl
        THEN LET r == ParseFlagOnly(fl[opt], vs)
             IN  IF r.needs /\ i < Len(av)
                 THEN [i |-> i + 2,
                       vars |-> ParseWithValue(fl[opt],
                                   IF i + 1 < Len(av) THEN Arg(av, i + 1) ELSE <<>>,
                                   r.vars)]
                 ELSE [i |-> i + 1, vars |-> r.vars]
        ELSE [i |-> i + 1, vars |-> vs]

\* mutant: the name is looked up with lower_bound, which finds the first
\* key that is not less than it
BodyLowerBound(i, av, fl, vs) ==
    LET opt  == Tail(Arg(av, i))
        cand == { n \in DOMAIN fl : ~StrLess(n, opt) }
        key  == CHOOSE n \in cand : \A m \in cand \ {n} : StrLess(n, m)
    IN  IF cand # {}
        THEN LET r == ParseFlagOnly(fl[key], vs)
             IN  IF r.needs /\ i < Len(av) - 1
                 THEN [i |-> i + 2,
                       vars |-> ParseWithValue(fl[key], Arg(av, i + 1), r.vars)]
                 ELSE [i |-> i + 1, vars |-> r.vars]
        ELSE [i |-> i + 1, vars |-> vs]

\* one pass through the body of the while loop for a token that begins
\* with '-': the cursor and the variables after it
Body(i, av, fl, vs) ==
    LET opt == Tail(Arg(av, i))
    IN  IF opt \in DOMAIN fl
        THEN LET r == ParseFlagOnly(fl[opt], vs)
             IN  IF r.needs /\ i < Len(av) - 1
                 THEN [i |-> i + 2,
                       vars |-> ParseWithValue(fl[opt], Arg(av, i + 1), r.vars)]
                 ELSE [i |-> i + 1, vars |-> r.vars]
        ELSE [i |-> i + 1, vars |-> vs]

\* the while loop from cursor i on: the returned index and the variables
RECURSIVE Loop(_, _, _, _)
Loop(i, av, fl, vs) ==
    IF i < Len(av) /\ IsFlag(Arg(av, i))
    THEN LET b == Body(i, av, fl, vs) IN Loop(b.i, av, fl, b.vars)
    ELSE [ret |-> i, vars |-> vs]

\* int parse(const int argc, char ** argv) as a function of its inputs
ParseResult(av, fl, vs) == Loop(1, av, fl, vs)

\* mutant: the loop stops one entry early
RECURSIVE RowsButLast(_, _, _)
RowsButLast(keys, fl, vs) ==
    IF Cardinality(keys) <= 1 THEN <<>>
    ELSE LET k == CHOOSE x \in keys : \A y \in keys \ {x} : StrLess(x, y)
         IN  <<[name |-> k, value |-> CurrentValue(fl[k], vs), type |-> TypeName(fl[k])]>>
                 \o RowsButLast(keys \ {k}, fl, vs)

\* the rows print writes after the header, in the order of the map's keys
RECURSIVE Rows(_, _, _)
Rows(keys, fl, vs) ==
    IF keys = {} THEN <<>>
    ELSE LET k == CHOOSE x \in keys : \A y \in keys \ {x} : StrLess(x, y)
         IN  <<[name |-> k, value |-> CurrentValue(fl[k], vs), type |-> TypeName(fl[k])]>>
                 \o Rows(keys \ {k}, fl, vs)

(* ---------------------------- state ------------------------------------ *)
VARIABLES
    flags,      \* store<>::flags : name -> handle
    heap,       \* the typed_option objects allocated by make
    vars,       \* the caller's variables, by name
    pc,         \* "idle", "loop" (in parse's loop), "done" (parse has set its result)
    argv,       \* parse's argument
    i,          \* parse's cursor
    ret,        \* the value parse returned
    out,        \* what a print call has just written: header and rows
    pre,        \* history: vars when parse was called
    cursors,    \* history: the cursor at each evaluation of argv[i][0]
    matched,    \* history: names found by a parse since they were registered
    lastMade,   \* history: name -> the variable of the latest make call for it
    nparses     \* history: number of parse calls

state == <<flags, heap, vars, pc, argv, i, ret, out, pre, cursors, matched, lastMade, nparses>>

NoFlags == [n \in {} |-> Handle("yesno")]

Init ==
    /\ flags = NoFlags
    /\ heap = {}
    /\ vars = VarInit
    /\ pc = "idle"
    /\ argv = <<>>
    /\ i = 0
    /\ ret = 0
    /\ out = <<>>
    /\ pre = VarInit
    /\ cursors = <<>>
    /\ matched = {}
    /\ lastMade = [n \in Names |-> "none"]
    /\ nparses = 0

\* mutant: flags.insert(make_pair(name, new_option)), which keeps an old entry
RegisterKeepsOld(fl, name, h) ==
    [n \in DOMAIN fl \cup {name} |-> IF n \in DOMAIN fl THEN fl[n] ELSE h]

\* store<>::flags[name] = new_option
Register(fl, name, h) ==
    [n \in DOMAIN fl \cup {name} |-> IF n = name THEN h ELSE fl[n]]

\* options::make(val, name); the caller passes a variable it has not
\* registered before
make(v, name) ==
    /\ pc = "idle"
    /\ Cardinality(heap) < MaxMakes
    /\ \A h \in heap : h.val # v
    /\ heap' = heap \cup {Handle(v)}
    /\ flags' = Register(flags, name, Handle(v))
    /\ matched' = matched \ {name}
    /\ lastMade' = [lastMade EXCEPT ![name] = v]
    /\ out' = <<>>
    /\ UNCHANGED <<vars, pc, argv, i, ret, pre, cursors, nparses>>

\* options::parse(argc, argv) is entered: int i = 1
parseCall(av) ==
    /\ pc = "idle"
    /\ nparses < MaxParses
    /\ pc' = "loop"
    /\ argv' = av
    /\ i' = 1
    /\ ret' = 0
    /\ pre' = vars
    /\ cursors' = <<>>
    /\ nparses' = nparses + 1
    /\ out' = <<>>
    /\ UNCHANGED <<flags, heap, vars, matched, lastMade>>

\* one iteration of the while loop on a token that begins with '-'
parseIter ==
    /\ pc = "loop"
    /\ i < Len(argv)
    /\ IsFlag(Arg(argv, i))
    /\ LET b == Body(i, argv, flags, vars)
       IN  /\ i' = b.i
           /\ vars' = b.vars
    /\ cursors' = Append(cursors, i)
    /\ matched' = matched \cup ({Tail(Arg(argv, i))} \cap DOMAIN flags)
    /\ UNCHANGED <<flags, heap, pc, argv, ret, out, pre, lastMade, nparses>>

\* the loop ends (i reached argc, or break on a token without '-'): return i
parseReturn ==
    /\ pc = "loop"
    /\ ~(i < Len(argv) /\ IsFlag(Arg(argv, i)))
    /\ ret' = i
    /\ pc' = "done"
    /\ cursors' = IF i < Len(argv) THEN Append(cursors, i) ELSE cursors
    /\ UNCHANGED <<flags, heap, vars, argv, i, out, pre, matched, lastMade, nparses>>

\* parse's frame is left: its parameters and locals are gone, and the caller
\* of the usage example drops the result
parseLeave ==
    /\ pc = "done"
    /\ pc' = "idle"
    /\ argv' = <<>>
    /\ i' = 0
    /\ ret' = 0
    /\ pre' = vars
    /\ cursors' = <<>>
    /\ UNCHANGED <<flags, heap, vars, out, matched, lastMade, nparses>>

Header == [name |-> "option", value |-> "default", type |-> "type"]

\* options::print(out)
print ==
    /\ pc = "idle"
    /\ out' = <<Header>> \o Rows(DOMAIN flags, flags, vars)
    /\ UNCHANGED <<flags, heap, vars, pc, argv, i, ret, pre, cursors, matched, lastMade, nparses>>

Next ==
    \/ \E v \in VarNames, name \in Names : make(v, name)
    \/ \E av \in Argvs : parseCall(av)
    \/ parseIter
    \/ parseReturn
    \/ parseLeave
    \/ print

Spec == Init /\ [][Next]_state

\* parse runs to completion once called: the thread that called it keeps
\* executing the loop and the return
FairSpec == Spec /\ WF_state(parseIter) /\ WF_state(parseReturn)

(* ---------------------------- properties ------------------------------ *)
\* the token begins with the flag-prefix character
Dash(tok) == Len(tok) >= 1 /\ Head(tok) = "-"

\* the parser is at the loop head on a flag token
AtFlag == pc = "loop" /\ i < Len(argv) /\ Dash(Arg(argv, i))

\* the text after the '-' of the token at the cursor
NameAtCursor == SubSeq(Arg(argv, i), 2, Len(Arg(argv, i)))

\* the parser is at a flag token whose name is registered with the given kinds
AtRegistered(kinds) ==
    /\ AtFlag
    /\ NameAtCursor \in DOMAIN flags
    /\ flags[NameAtCursor].kind \in kinds

ValueKinds == {"string", "int", "ofstream"}

\* all variables but v keep their values in the step
OthersUnchanged(v) == \A w \in VarNames \ {v} : vars'[w] = vars[w]

\* C1: parse returns the first cursor position it reaches whose token does not
\* begin with '-', or argc when it runs off the end; every cursor position
\* before it holds a flag token; and the variables are what parsing the
\* arguments before the returned index alone produces, so no token at or after
\* the returned index has any effect.
C1_ReturnsFirstPositional ==
    pc = "done" =>
        /\ ret >= 1 /\ ret <= Len(argv)
        /\ ret < Len(argv) =>
              /\ ~Dash(Arg(argv, ret))
              /\ cursors # <<>> /\ cursors[Len(cursors)] = ret
        /\ \A k \in 1..Len(cursors) :
              /\ cursors[k] >= 1 /\ cursors[k] <= ret
              /\ cursors[k] < ret => Dash(Arg(argv, cursors[k]))
              /\ k > 1 => cursors[k - 1] < cursors[k]
        /\ LET cut == ParseResult(SubSeq(argv, 1, ret), flags, pre)
           IN  cut.ret = ret /\ cut.vars = vars

\* C1 witness: parse stopped at a positional token although a registered flag
\* with a value follows it, after an earlier flag changed a variable
C1_Witness ==
    /\ pc = "done"
    /\ vars # pre
    /\ ret + 2 < Len(argv)
    /\ Dash(Arg(argv, ret + 1))
    /\ Tail(Arg(argv, ret + 1)) \in DOMAIN flags

\* C2: a flag token whose name is not registered advances the cursor by
\* exactly 1 and changes no variable, so the token after it is the next one
\* looked at; parsing ["prog", "-z", "1"] returns 2.
C2_UnknownFlagSkipped ==
    /\ [][(AtFlag /\ NameAtCursor \notin DOMAIN flags)
            => (i' = i + 1 /\ vars' = vars /\ pc' = "loop")]_state
    /\ [](pc = "done" /\ argv = <<prog, <<"-", "z">>, <<"1">> >> => ret = 2)

\* C2 witness: ["prog", "-z", "1"] was parsed with flags registered
C2_Witness ==
    /\ pc = "done"
    /\ argv = <<prog, <<"-", "z">>, <<"1">> >>
    /\ ret = 2
    /\ DOMAIN flags # {}
    /\ vars = pre

\* C3: a registered boolean flag that no command line has named since it was
\* registered leaves its variable at the value it had on registration; a flag
\* token naming it sets the variable to true and advances the cursor by 1,
\* whatever follows, and changes nothing else.
C3_BoolFlag ==
    /\ [](\A n \in DOMAIN flags :
            (flags[n].kind = "bool" /\ n \notin matched)
                => vars[flags[n].val] = VarInit[flags[n].val])
    /\ [][AtRegistered({"bool"})
            => /\ vars'[flags[NameAtCursor].val] = TRUE
               /\ OthersUnchanged(flags[NameAtCursor].val)
               /\ i' = i + 1
               /\ pc' = "loop"]_state

\* C3 witness: a boolean flag followed by another token was parsed: the
\* variable went from false to true and the token after it is where parse stopped
C3_Witness ==
    /\ pc = "done"
    /\ Len(cursors) = 2
    /\ Dash(Arg(argv, cursors[1]))
    /\ Tail(Arg(argv, cursors[1])) \in DOMAIN flags
    /\ flags[Tail(Arg(argv, cursors[1]))].kind = "bool"
    /\ flags[Tail(Arg(argv, cursors[1]))].val = "yesno"
    /\ pre["yesno"] = FALSE /\ vars["yesno"] = TRUE
    /\ ret = cursors[1] + 1

\* C4: a string flag followed by a token stores the token verbatim and
\* advances the cursor by exactly 2.
C4_StringFlag ==
    [][(AtRegistered({"string"}) /\ i < Len(argv) - 1)
          => /\ vars'[flags[NameAtCursor].val] = Arg(argv, i + 1)
             /\ OthersUnchanged(flags[NameAtCursor].val)
             /\ i' = i + 2]_state

\* C4 witness: a string flag took the token "-a" as its value, letter for letter
C4_Witness ==
    /\ pc = "done"
    /\ vars["test"] = <<"-", "a">>
    /\ pre["test"] = <<>>
    /\ ret = 3

\* C5: a numeric flag followed by "42" sets its variable to 42; followed by
\* "abc" it leaves the variable as it was; either way the cursor advances by 2.
C5_NumericFlag ==
    [][(AtRegistered({"int"}) /\ i < Len(argv) - 1)
          => /\ i' = i + 2
             /\ Arg(argv, i + 1) = <<"4", "2">> => vars'[flags[NameAtCursor].val] = 42
             /\ Arg(argv, i + 1) = abc
                   => vars'[flags[NameAtCursor].val] = vars[flags[NameAtCursor].val]]_state

\* the cursor positions of the finished parse at which the flag named n stood
Occ(n) ==
    { c \in { cursors[k] : k \in 1..Len(cursors) } :
        c < Len(argv) /\ Dash(Arg(argv, c)) /\ Tail(Arg(argv, c)) = n }

CursorSet == { cursors[k] : k \in 1..Len(cursors) }

Max(S) == CHOOSE x \in S : \A y \in S : y <= x

\* C6: a registered value-requiring flag that is the last token of argv
\* consumes nothing and changes no variable, the cursor moves to argc and
\* parse returns argc; a flag that stands only there keeps its pre-parse value.
C6_MissingValue ==
    /\ [][(AtRegistered(ValueKinds) /\ i = Len(argv) - 1)
            => (vars' = vars /\ i' = Len(argv) /\ pc' = "loop")]_state
    /\ [](\A n \in DOMAIN flags :
            (/\ pc = "done"
             /\ flags[n].kind \in ValueKinds
             /\ Len(argv) - 1 \in Occ(n))
                => /\ ret = Len(argv)
                   /\ Occ(n) = {Len(argv) - 1} => vars[flags[n].val] = pre[flags[n].val])

\* C6 witness: a sink flag was the last token of a longer command line
C6_Witness ==
    /\ pc = "done"
    /\ Len(argv) = 3
    /\ ret = 3
    /\ \E n \in DOMAIN flags :
          /\ flags[n].kind = "ofstream"
          /\ Occ(n) = {2}
          /\ vars[flags[n].val] = pre[flags[n].val]
    /\ \E m \in DOMAIN flags : flags[m].kind = "bool" /\ Occ(m) = {1}

\* the token is a decimal numeral
Numeral(tok) == tok # <<>> /\ \A k \in 1..Len(tok) : IsDigit(tok[k])

\* the variable of a flag of the given kind holds the value the token denotes
Holds(kind, val, tok) ==
    CASE kind = "string"   -> val = tok
      [] kind = "int"      -> Numeral(tok) => val = DigitsValue(tok)
      [] kind = "ofstream" -> val.open /\ val.path = tok
      [] OTHER             -> TRUE

\* C7 as stated: a value-bearing flag of any variant that occurs more than
\* once, each time followed by a token, ends with the value of its last
\* occurrence, every occurrence consuming its own value token.
C7_LastWriteWins_Stated ==
    \A n \in DOMAIN flags :
        (/\ pc = "done"
         /\ flags[n].kind \in ValueKinds
         /\ Cardinality(Occ(n)) >= 2
         /\ \A c \in Occ(n) : c < Len(argv) - 1)
            => /\ \A c \in Occ(n) : c + 1 \notin CursorSet
               /\ Holds(flags[n].kind, vars[flags[n].val], Arg(argv, Max(Occ(n)) + 1))

ExampleC8 == <<prog, <<"-", "a">>, <<"1">>, positional, <<"-", "b">>, <<"2">> >>

\* C8 as stated: with a registered and b not, parsing the example returns 2,
\* the index of "positional".
C8_Example_Stated ==
    (/\ pc = "done"
     /\ argv = ExampleC8
     /\ <<"a">> \in DOMAIN flags
     /\ <<"b">> \notin DOMAIN flags)
        => ret = 2 /\ Arg(argv, ret) = positional

\* C8 amended: with a registered as a value-requiring flag and b not
\* registered, parsing the example returns 3, the index of "positional" (a
\* boolean a stops at "1", index 2); the later "-b 2" is never reached.
C8_Example ==
    (/\ pc = "done"
     /\ argv = ExampleC8
     /\ <<"a">> \in DOMAIN flags
     /\ <<"b">> \notin DOMAIN flags)
        => /\ flags[<<"a">>].kind \in ValueKinds
                 => ret = 3 /\ Arg(argv, ret) = positional
           /\ flags[<<"a">>].kind = "bool"
                 => ret = 2 /\ Arg(argv, ret) = <<"1">>
           /\ \A c \in CursorSet : c <= 3

\* C8 witness: the example was parsed with a a string flag
C8_Witness ==
    /\ pc = "done"
    /\ argv = ExampleC8
    /\ <<"a">> \in DOMAIN flags
    /\ flags[<<"a">>].kind = "string"
    /\ vars["test"] = <<"1">>
    /\ ret = 3

\* C9: the registry maps every name made so far, and no other, to the handle
\* of the latest make call for it; a flag token with a value changes at most
\* the variable of that latest registration.
C9_ReRegistration ==
    /\ [](/\ DOMAIN flags = { n \in Names : lastMade[n] # "none" }
          /\ \A n \in DOMAIN flags :
                flags[n] \in heap /\ flags[n].val = lastMade[n])
    /\ [][(AtFlag /\ NameAtCursor \in Names /\ lastMade[NameAtCursor] # "none"
              /\ i < Len(argv) - 1)
            => OthersUnchanged(lastMade[NameAtCursor])]_state

\* C9 witness: a name was registered for test and then for param, and
\* "-name 2" then set param and left test alone
C9_Witness ==
    /\ pc = "done"
    /\ Cardinality(heap) = 2
    /\ \E n \in DOMAIN flags :
          /\ DOMAIN flags = {n}
          /\ flags[n].val = "param"
          /\ Occ(n) # {}
    /\ \E h \in heap : h.val = "test"
    /\ vars["param"] = 2
    /\ vars["test"] = VarInit["test"]

\* C10: what print writes is the header and one row per registered name, a
\* name registered twice counting once, matched by a parse or not; and no
\* step of parse changes the registry.
C10_PrintRows ==
    /\ [][out' # <<>>
            => /\ Len(out') = 1 + Cardinality(DOMAIN flags)
               /\ { out'[k].name : k \in 2..Len(out') } = DOMAIN flags
               /\ out'[1] = Header]_state
    /\ [][(pc = "loop" \/ pc' = "loop") => flags' = flags]_state

\* C10 witness: after a parse that matched one of the two registered flags,
\* print wrote the header and two rows
C10_Witness ==
    /\ nparses >= 1
    /\ pc = "idle"
    /\ Len(out) = 3
    /\ Cardinality(DOMAIN flags) = 2
    /\ Cardinality(matched) = 1

\* the text t is how a value of the kind reads: 1 or 0 for a boolean, the
\* string itself, the decimal numeral of a number
Reads(kind, val, t) ==
    CASE kind = "bool"   -> t = (IF val THEN <<"1">> ELSE <<"0">>)
      [] kind = "string" -> t = val
      [] kind = "int"    -> IF val >= 0
                            THEN Numeral(t) /\ DigitsValue(t) = val
                            ELSE Len(t) >= 2 /\ Head(t) = "-" /\ Numeral(Tail(t))
                                    /\ DigitsValue(Tail(t)) = 0 - val
      [] OTHER           -> TRUE

C12_Terminates ==
    /\ [][(pc = "loop" /\ pc' = "loop")
            => /\ i' = i + 1 \/ i' = i + 2
               /\ i' <= Len(argv)
               /\ argv' = argv]_state
    /\ [][(pc = "loop" /\ pc' = "done")
            => /\ i = Len(argv) \/ ~Dash(Arg(argv, i))
               /\ ret' = i]_state
    /\ (pc = "loop") ~> (pc = "done")

\* C12 witness: a parse returned after one iteration that moved the cursor by
\* 2 and one that moved it by 1
C12_Witness ==
    /\ pc = "done"
    /\ cursors = <<1, 3>>
    /\ ret = 4
    /\ Len(argv) = 4

\* C13: the token after a registered value-requiring flag is that flag's
\* value even when it begins with '-' and names a registered flag: the cursor
\* advances by 2, a string flag stores the token letter for letter, a closed
\* sink opens the file of that name, the flag the token names is not looked up
\* and its variable, like every other variable, is unchanged.
C13_DashValue ==
    [][(/\ AtRegistered(ValueKinds)
        /\ i < Len(argv) - 1
        /\ Dash(Arg(argv, i + 1)))
          => LET h == flags[NameAtCursor]
                 t == Arg(argv, i + 1)
             IN  /\ i' = i + 2
                 /\ OthersUnchanged(h.val)
                 /\ h.kind = "string" => vars'[h.val] = t
                 /\ (h.kind = "ofstream" /\ ~vars[h.val].open)
                       => vars'[h.val].open /\ vars'[h.val].path = t
                 /\ matched' = matched \cup {NameAtCursor}
                 /\ cursors' = Append(cursors, i)]_state

\* C13 witness: "-a -n" was parsed with a a string flag and n a boolean flag:
\* the string is "-n", the boolean is still false, and parse returned 3
C13_Witness ==
    /\ pc = "done"
    /\ argv = <<prog, <<"-", "a">>, <<"-", "n">> >>
    /\ DOMAIN flags = { <<"a">>, <<"n">> }
    /\ flags[<<"a">>].kind = "string"
    /\ flags[<<"n">>].kind = "bool"
    /\ vars["test"] = <<"-", "n">>
    /\ vars["yesno"] = FALSE
    /\ matched = { <<"a">> }
    /\ cursors = <<1>>
    /\ ret = 3

\* the indices at which the parse so far has read a value token: one after
\* every cursor position from which the cursor moved on by 2
ValueReads ==
    { cursors[k] + 1 : k \in { j \in 1..Len(cursors) :
          (IF j < Len(cursors) THEN cursors[j + 1] ELSE i) = cursors[j] + 2 } }

\* C14: while parse runs the cursor is between 1 and argc, every index at
\* which argv is read, for a flag or for a value, is between 1 and argc - 1,
\* and the returned index is between 1 and argc.
C14_ReadsInBounds ==
    (pc = "loop" \/ pc = "done") =>
        /\ Len(argv) >= 1
        /\ i >= 1 /\ i <= Len(argv)
        /\ \A c \in CursorSet \cup ValueReads : c >= 1 /\ c <= Len(argv) - 1
        /\ pc = "done" => (ret >= 1 /\ ret <= Len(argv))

\* C14 witness: a value was read at the last index, argc - 1, and parse
\* returned argc
C14_Witness ==
    /\ pc = "done"
    /\ Len(argv) = 3
    /\ cursors = <<1>>
    /\ ValueReads = {2}
    /\ ret = 3
    /\ vars["param"] = 1

\* C15: no step of parse changes the registry or allocates a handle, and a
\* variable differs from its value at the call only if a registered flag bound
\* to it stood as a flag token at a cursor position before the current cursor
\* (before the returned index, once parse has returned).
C15_Frame ==
    /\ [][(pc = "loop" \/ pc' = "loop") => (flags' = flags /\ heap' = heap)]_state
    /\ []((pc = "loop" \/ pc = "done") =>
            \A v \in VarNames :
                vars[v] # pre[v]
                    => \E n \in DOMAIN flags :
                          /\ flags[n].val = v
                          /\ \E c \in Occ(n) :
                                /\ c < i
                                /\ pc = "done" => c < ret
                                /\ c \notin ValueReads)

\* C15 witness: in "-a -n" the sink flag a opened the file "-n"; n is a
\* registered numeric flag whose name stood only as a value, and its variable
\* has its value from before the parse
C15_Witness ==
    /\ pc = "done"
    /\ argv = <<prog, <<"-", "a">>, <<"-", "n">> >>
    /\ DOMAIN flags = { <<"a">>, <<"n">> }
    /\ flags[<<"a">>].val = "log"
    /\ flags[<<"n">>].val = "param"
    /\ vars["log"].open /\ ~pre["log"].open
    /\ vars["param"] = pre["param"]
    /\ ValueReads = {2}

\* C16: no step changes a boolean variable from true to false, and the
\* value-taking overload of a boolean option changes no variable whatever
\* token it is given.
C16_BoolMonotone ==
    /\ [][\A v \in VarNames :
            (VarKind[v] = "bool" /\ vars[v] = TRUE) => vars'[v] = TRUE]_state
    /\ [](\A h \in heap : \A t \in Tokens :
            h.kind = "bool" => ParseWithValue(h, t, vars) = vars)

\* C16 witness: a second parse named a boolean flag whose variable the first
\* parse had set, and the variable is still true
C16_Witness ==
    /\ pc = "done"
    /\ nparses = 2
    /\ pre["yesno"] = TRUE
    /\ vars["yesno"] = TRUE
    /\ \E n \in DOMAIN flags : flags[n].val = "yesno" /\ Occ(n) # {}

====
